---- MODULE Spec2Model ----
(***************************************************************************)
(* A model of PyBoAtSim's dynamics-and-integration engine:                 *)
(*   - BoAtSim (src/pyboatsim/boatsim.py): __init__, simulate, step,       *)
(*     _compute_accelerations, over a labelled state dictionary;           *)
(*   - MeshBuoyancy (src/pyboatsim/dynamics/buoyancy.py):                  *)
(*     required_state_labels and compute_dynamics.                         *)
(*                                                                         *)
(* Numbers.  Python floats are modelled as exact rationals <<n, d>> in     *)
(* lowest terms with d > 0; rounding is not modelled.                      *)
(*                                                                         *)
(* Objects.  A State object is its _state_dictionary; dictionaries live in *)
(* `heap` and are referred to by their index, so that aliasing between the *)
(* current state, the next state and the history entries is visible.       *)
(***************************************************************************)
EXTENDS Integers, Sequences, FiniteSets, TLC

VARIABLES
    heap,            \* Seq of dictionaries (label -> rational); index = object id
    state,           \* self.state: id of the current state's dictionary
    history,         \* self.history: Seq of ids of the appended dictionaries
    dynamics,        \* self.dynamics: Seq of generators
    dynamics_names,  \* self.dynamics_names: Seq of names
    getCopies,       \* whether State.get() returns a copy (TRUE) or the dictionary itself
    pc,              \* "idle" | "running": position inside simulate's loop
    remaining,       \* iterations of simulate's range(...) still to run
    curDt,           \* dt of the simulate call in progress
    lastCall,        \* what the last simulate call was given and what it did
    completed,       \* number of step calls that returned normally
    dts,             \* dt of every completed step, in order
    mutations,       \* number of caller writes into the current state so far
    bstate,          \* MeshBuoyancy: the state dictionary compute_dynamics works on
    buoyancy_model,  \* MeshBuoyancy: self.buoyancy_model (vertex set of the base mesh)
    buoyancy_model_temp, \* MeshBuoyancy: the placed working copy
    submerged,       \* MeshBuoyancy: result of slice_plane
    bin              \* MeshBuoyancy: the dictionary as it was when compute_dynamics was called

simvars == <<heap, state, history, dynamics, dynamics_names, getCopies, pc,
             remaining, curDt, lastCall, completed, dts, mutations>>
buoyvars == <<bstate, buoyancy_model, buoyancy_model_temp, submerged, bin>>
vars == <<simvars, buoyvars>>

----------------------------------------------------------------------------
(* Bounds of the model *)

\* simulate is not called once this many steps have completed
MaxSteps == 5
\* the caller writes into the current state at most this many times
MaxMutations == 1

----------------------------------------------------------------------------
(* e's value under the name x in F(x): LET x == e IN F(x), with e evaluated once *)
Bind(e, F(_)) == CHOOSE y \in {F(x) : x \in {e}} : TRUE

(* Exact rational arithmetic *)

Abs(n) == IF n < 0 THEN -n ELSE n

RECURSIVE GCD(_, _)
GCD(a, b) == IF b = 0 THEN a ELSE GCD(b, a % b)

\* the rational n/d in lowest terms, d # 0
Rat(n, d) ==
    LET g == GCD(Abs(n), Abs(d))
        s == IF d < 0 THEN -1 ELSE 1
    IN  <<(s * n) \div g, (s * d) \div g>>

RInt(n) == <<n, 1>>
RZero == <<0, 1>>
RAdd(a, b) == Rat(a[1] * b[2] + b[1] * a[2], a[2] * b[2])
RNeg(a) == <<-a[1], a[2]>>
RSub(a, b) == RAdd(a, RNeg(b))
RMul(a, b) == Rat(a[1] * b[1], a[2] * b[2])
RDiv(a, b) == Rat(a[1] * b[2], a[2] * b[1])
RLeq(a, b) == a[1] * b[2] <= b[1] * a[2]
\* Python's floor division a // b, b # 0
RFloorDiv(a, b) == LET q == RDiv(a, b) IN q[1] \div q[2]
\* ceil(a / b), b # 0
RCeilDiv(a, b) == LET q == RDiv(a, b) IN -((-q[1]) \div q[2])

RECURSIVE RSum(_)
\* Python's sum(list)
RSum(s) == IF s = <<>> THEN RZero ELSE RAdd(s[1], RSum(Tail(s)))

(* 3-vectors and 3x3 matrices of rationals, as tuples *)
Ax == 1..3
Tup3(F(_)) == <<F(1), F(2), F(3)>>
Tup4(F(_)) == <<F(1), F(2), F(3), F(4)>>
VZero == <<RZero, RZero, RZero>>
VInt(x, y, z) == <<RInt(x), RInt(y), RInt(z)>>
VAdd(u, v) == Tup3(LAMBDA i : RAdd(u[i], v[i]))
VSub(u, v) == Tup3(LAMBDA i : RSub(u[i], v[i]))
VScale(k, v) == Tup3(LAMBDA i : RMul(k, v[i]))
Cross(u, v) ==
    << RSub(RMul(u[2], v[3]), RMul(u[3], v[2])),
       RSub(RMul(u[3], v[1]), RMul(u[1], v[3])),
       RSub(RMul(u[1], v[2]), RMul(u[2], v[1])) >>
MatVec(M, v) == Tup3(LAMBDA i : RSum(Tup3(LAMBDA j : RMul(M[i][j], v[j]))))
Transpose(M) == Tup3(LAMBDA i : Tup3(LAMBDA j : M[j][i]))
Det3(M) ==
    RSum(<< RMul(M[1][1], RSub(RMul(M[2][2], M[3][3]), RMul(M[2][3], M[3][2]))),
            RNeg(RMul(M[1][2], RSub(RMul(M[2][1], M[3][3]), RMul(M[2][3], M[3][1])))),
            RMul(M[1][3], RSub(RMul(M[2][1], M[3][2]), RMul(M[2][2], M[3][1]))) >>)
\* the minor of M at row i, column j
Minor(M, i, j) ==
    LET r == IF i = 1 THEN <<2, 3>> ELSE IF i = 2 THEN <<1, 3>> ELSE <<1, 2>>
        c == IF j = 1 THEN <<2, 3>> ELSE IF j = 2 THEN <<1, 3>> ELSE <<1, 2>>
    IN  RSub(RMul(M[r[1]][c[1]], M[r[2]][c[2]]), RMul(M[r[1]][c[2]], M[r[2]][c[1]]))
\* the inverse of a 3x3 matrix by its adjugate, Det3(M) # 0
Inv3(M) ==
    Bind(Det3(M), LAMBDA det :
        Tup3(LAMBDA i : Tup3(LAMBDA j :
            RDiv(IF (i + j) % 2 = 0 THEN Minor(M, j, i) ELSE RNeg(Minor(M, j, i)), det))))

----------------------------------------------------------------------------
(* Labels and dictionaries *)

AXES == <<"x", "y", "z">>

\* f"{q}_{axis}__{owner}"
Lbl(q, i, owner) == q \o "_" \o AXES[i] \o "__" \o owner
\* f"I_{a}{b}__boat"
ILbl(i, j) == "I_" \o AXES[i] \o AXES[j] \o "__boat"

\* [d[f"{q}_{axis}__{owner}"] for axis in AXES]
VecOf(d, q, owner) == Tup3(LAMBDA i : d[Lbl(q, i, owner)])
VecLabels(q, owner) == {Lbl(q, i, owner) : i \in Ax}

\* State.set(partial_state_dictionary): merge, overwriting
DictSet(d, p) == p @@ d
\* a dictionary with the single entry l: v
One(l, v) == l :> v
\* the dictionary writing vector v under f"{q}_{axis}__{owner}"
VecDict(q, owner, v) ==
    (Lbl(q, 1, owner) :> v[1]) @@ (Lbl(q, 2, owner) :> v[2]) @@ (Lbl(q, 3, owner) :> v[3])
\* d without the labels in s
Without(d, s) == [l \in (DOMAIN d) \ s |-> d[l]]

----------------------------------------------------------------------------
(* The geometry library (trimesh), as far as MeshBuoyancy uses it.          *)
(* A solid is the finite set of the centres of the unit cells it is made    *)
(* of; a rigid transform moves the centres, a slice keeps the cells whose   *)
(* centre lies on the kept side of the plane, the volume is the number of   *)
(* cells and the centre of mass is the mean of the centres.                 *)
(* Angles are held in quarter turns (pi/2), the only unit in which exact    *)
(* rotations have rational matrices: theta must have an integer norm.       *)

Ix == 1..4
Identity4 == Tup4(LAMBDA i : Tup4(LAMBDA j : IF i = j THEN RInt(1) ELSE RZero))
\* np.eye(3)
Identity3 == Tup3(LAMBDA i : Tup3(LAMBDA j : IF i = j THEN RInt(1) ELSE RZero))
\* trimesh.transformations.translation_matrix(direction)
translation_matrix(direction) ==
    Tup4(LAMBDA i : Tup4(LAMBDA j :
        IF j = 4 /\ i < 4 THEN direction[i] ELSE Identity4[i][j]))
\* numpy's unary minus on a matrix: every entry negated
MatNeg4(M) == Tup4(LAMBDA i : Tup4(LAMBDA j : RNeg(M[i][j])))
\* trimesh.transformations.concatenate_matrices(A, B) = A . B
concatenate_matrices(A, B) ==
    Tup4(LAMBDA i : Tup4(LAMBDA j : RSum(Tup4(LAMBDA k : RMul(A[i][k], B[k][j])))))
\* the upper left 3x3 block M[0:3, 0:3]
Block3(M) == Tup3(LAMBDA i : Tup3(LAMBDA j : M[i][j]))
\* trimesh transform_points: np.dot(matrix, [p, 1])[:3]
transform_point(M, p) ==
    Tup3(LAMBDA i : RAdd(RSum(Tup3(LAMBDA j : RMul(M[i][j], p[j]))), M[i][4]))
\* Trimesh.apply_transform(matrix) on a copy
apply_transform(mesh, M) == {transform_point(M, p) : p \in mesh}

\* np.linalg.norm(theta), theta of integer norm
Norm(theta) ==
    Bind(RSum(Tup3(LAMBDA i : RMul(theta[i], theta[i]))), LAMBDA s :
        RInt(CHOOSE n \in 0..s[1] : n * n = s[1] /\ s[2] = 1))
\* cos and sin of k quarter turns
CosQ(k) == LET m == k % 4 IN IF m = 0 THEN 1 ELSE IF m = 2 THEN -1 ELSE 0
SinQ(k) == LET m == k % 4 IN IF m = 1 THEN 1 ELSE IF m = 3 THEN -1 ELSE 0
\* trimesh.transformations.rotation_matrix(angle, direction), direction a unit vector
rotation_matrix(angle, direction) ==
    LET c == RInt(CosQ(angle[1]))
        s == RInt(SinQ(angle[1]))
        K == << <<RZero, RNeg(direction[3]), direction[2]>>,
                <<direction[3], RZero, RNeg(direction[1])>>,
                <<RNeg(direction[2]), direction[1], RZero>> >>
    IN  Tup4(LAMBDA i : Tup4(LAMBDA j :
            IF i = 4 \/ j = 4 THEN Identity4[i][j]
            ELSE RAdd(RAdd(RMul(c, Identity3[i][j]), RMul(s, K[i][j])),
                      RMul(RSub(RInt(1), c), RMul(direction[i], direction[j])))))

\* Trimesh.slice_plane(plane_origin, plane_normal, cap=True): the part on the
\* side the normal points to
slice_plane(mesh, plane_origin, plane_normal) ==
    {p \in mesh : RLeq(RZero,
        RSum(Tup3(LAMBDA i : RMul(RSub(p[i], plane_origin[i]), plane_normal[i]))))}
\* Trimesh.volume
Volume(mesh) == RInt(Cardinality(mesh))
RECURSIVE VSumSet(_)
VSumSet(S) == IF S = {} THEN VZero
              ELSE LET p == CHOOSE q \in S : TRUE IN VAdd(p, VSumSet(S \ {p}))
\* Trimesh.center_mass, mesh non-empty
center_mass(mesh) == VScale(Rat(1, Cardinality(mesh)), VSumSet(mesh))

----------------------------------------------------------------------------
(* MeshBuoyancy *)

\* the result of a call that may raise: ok = FALSE when it raised, d = the
\* dictionary as the call left it
Ret(ok, d) == [ok |-> ok, d |-> d]

\* pyboatsim.constants.EPSILON, in quarter turns
EPSILON == Rat(1, 1000)
\* the gravitational constant 9.81 of line 97
Gravity == Rat(981, 100)

\* MeshBuoyancy.required_state_labels
MeshBuoyancy_required_state_labels ==
    <<"r_z__water">> \o Tup3(LAMBDA i : Lbl("r", i, "boat"))
        \o Tup3(LAMBDA i : Lbl("theta", i, "boat")) \o <<"rho__water">>

\* the rotation_matrix of lines 55-61
BuoyRotation(theta) ==
    Bind(Norm(theta), LAMBDA n :
        IF RLeq(n, EPSILON) THEN Identity4
        ELSE rotation_matrix(n, VScale(RDiv(RInt(1), n), theta)))

\* lines 47-69: the working copy of the base mesh, placed
PlaceMesh(mesh, theta, r, c) ==
    apply_transform(
        apply_transform(
            apply_transform(mesh, MatNeg4(translation_matrix(c))),
            concatenate_matrices(translation_matrix(r), BuoyRotation(theta))),
        translation_matrix(c))

\* lines 71-75: the submerged piece of the placed mesh
SliceSubmerged(placed, st) == slice_plane(placed, VInt(0, 0, 0), VInt(0, 0, -1))

\* the labels compute_dynamics reads on every path
BuoyReads ==
    VecLabels("theta", "boat") \cup VecLabels("r", "boat") \cup VecLabels("c", "boat")

\* lines 86-114: the force and torque of the submerged piece sub, written into
\* st under the generator's name; rotT is rotation_matrix.T[0:3, 0:3]
BuoyWrite(name, st, sub, rotT, r, c) ==
    IF sub = {}
    THEN Ret(TRUE, DictSet(DictSet(DictSet(st, One(name \o "__submerged_volume", RZero)),
                           VecDict("f", name, VZero)),
                           VecDict("tau", name, VZero)))
    ELSE IF "rho__water" \notin DOMAIN st
    THEN Ret(FALSE, DictSet(st, One(name \o "__submerged_volume", Volume(sub))))
    ELSE
    Bind(<<RZero, RZero, RMul(RMul(Volume(sub), st["rho__water"]), Gravity)>>,
         LAMBDA force__worldframe :
    Bind(VSub(MatVec(rotT, VSub(center_mass(sub), r)), c),
         LAMBDA point_of_application__comframe :
        Ret(TRUE,
            DictSet(DictSet(DictSet(st, One(name \o "__submerged_volume", Volume(sub))),
                    VecDict("f", name, force__worldframe)),
                    VecDict("tau", name,
                            Cross(point_of_application__comframe,
                                  MatVec(rotT, force__worldframe)))))))

\* MeshBuoyancy.compute_dynamics(state, dt), lines 40-116, for the generator
\* `self` (name, buoyancy_model) on dictionary st: what it returns or how it
\* raised, with the placed mesh and the submerged piece
MeshBuoyancy_compute_dynamics(self, st) ==
    IF ~(BuoyReads \subseteq DOMAIN st)
    THEN [ok |-> FALSE, d |-> st, placed |-> {}, sub |-> {}]
    ELSE
    Bind(VecOf(st, "theta", "boat"), LAMBDA theta :
    Bind(VecOf(st, "r", "boat"), LAMBDA r :
    Bind(VecOf(st, "c", "boat"), LAMBDA c :
    Bind(PlaceMesh(self.buoyancy_model, theta, r, c), LAMBDA placed :
    Bind(SliceSubmerged(placed, st), LAMBDA sub :
    Bind(BuoyWrite(self.name, st, sub, Transpose(Block3(BuoyRotation(theta))), r, c),
         LAMBDA res :
        [ok |-> res.ok, d |-> res.d, placed |-> placed, sub |-> sub]))))))

(* The inputs of SpecBuoy *)
BuoyMeshes ==
    { {VInt(0, 0, 0), VInt(1, 0, 0), VInt(0, 0, 1)},
      {VInt(0, 0, -1), VInt(0, 0, 0), VInt(0, 0, 1), VInt(0, 0, 2)} }
BuoyPositions == {VInt(0, 0, 0), VInt(0, 0, -1), VInt(1, 0, 2)}
BuoyOffsets == {VInt(0, 0, 0), VInt(1, 0, 0), VInt(0, 0, 1)}
BuoyThetas == {VInt(0, 0, 0), VInt(0, 0, 1), VInt(2, 0, 0), VInt(0, -1, 0)}
BuoyWaterHeights == {RInt(0), RInt(1), RInt(-1)}
BuoyDensities == {RInt(1000)}

BuoyInput(r, theta, c, h, rho) ==
    DictSet(DictSet(DictSet(VecDict("r", "boat", r), VecDict("theta", "boat", theta)),
            VecDict("c", "boat", c)),
            DictSet(One("r_z__water", h), One("rho__water", rho)))

\* MeshBuoyancy.__init__ (lines 11-27) with a watertight mesh, and the state
\* that compute_dynamics is about to be called with
BuoyInit ==
    /\ buoyancy_model \in BuoyMeshes
    /\ buoyancy_model_temp = {}
    /\ submerged = {}
    /\ \E r \in BuoyPositions, theta \in BuoyThetas, c \in BuoyOffsets,
          h \in BuoyWaterHeights, rho \in BuoyDensities :
           bstate = BuoyInput(r, theta, c, h, rho)
    /\ bin = <<>>

\* the call of compute_dynamics on the state, which holds every label the
\* generator declares
BuoyComputeDynamics ==
    /\ bin = <<>>
    /\ \E res \in {MeshBuoyancy_compute_dynamics(
                       [name |-> "buoyancy", buoyancy_model |-> buoyancy_model], bstate)} :
           /\ bin' = bstate
           /\ bstate' = res.d
           /\ buoyancy_model_temp' = res.placed
           /\ submerged' = res.sub
           /\ UNCHANGED buoyancy_model

----------------------------------------------------------------------------
(* Force generators *)

\* a ConstantForce generator: a fixed force and torque under its name
ConstantForce(name, f, tau) ==
    [kind |-> "ConstantForce", name |-> name, f |-> f, tau |-> tau,
     buoyancy_model |-> {}]
\* a MeshBuoyancy generator (buoyancy.py lines 11-27)
MeshBuoyancy(name, mesh) ==
    [kind |-> "MeshBuoyancy", name |-> name, f |-> VZero, tau |-> VZero,
     buoyancy_model |-> mesh]

Range(s) == {s[i] : i \in DOMAIN s}

\* dynamics_module.required_state_labels()
required_state_labels(g) ==
    IF g.kind = "MeshBuoyancy" THEN MeshBuoyancy_required_state_labels ELSE <<>>

\* ConstantForce.compute_dynamics: writes its fixed force and torque
ConstantForce_compute_dynamics(g, d) ==
    Ret(TRUE, DictSet(DictSet(d, VecDict("f", g.name, g.f)),
                      VecDict("tau", g.name, g.tau)))

\* DynamicsParent.__call__(state, dt): raises when a required label is absent,
\* otherwise runs compute_dynamics
Dynamics_call(g, d) ==
    IF ~(Range(required_state_labels(g)) \subseteq DOMAIN d) THEN Ret(FALSE, d)
    ELSE IF g.kind = "MeshBuoyancy"
         THEN Bind(MeshBuoyancy_compute_dynamics(g, d), LAMBDA res : Ret(res.ok, res.d))
         ELSE ConstantForce_compute_dynamics(g, d)

----------------------------------------------------------------------------
(* BoAtSim *)

\* self.dynamics_names of __init__, lines 28-31
NamesOf(gens) == [k \in DOMAIN gens |-> gens[k].name]

\* self.required_labels of __init__, lines 32-52
required_labels ==
    [i \in Ax |-> Lbl("r", i, "boat")] \o [i \in Ax |-> Lbl("v", i, "boat")]
    \o [i \in Ax |-> Lbl("a", i, "boat")] \o [i \in Ax |-> Lbl("theta", i, "boat")]
    \o [i \in Ax |-> Lbl("omega", i, "boat")] \o [i \in Ax |-> Lbl("alpha", i, "boat")]
    \o <<"m__boat">> \o [i \in Ax |-> ILbl(i, i)]
    \o [i \in Ax |-> Lbl("c", i, "boat")] \o <<"t">>

\* missing_labels of simulate, lines 166-169
missing_labels(d) == SelectSeq(required_labels, LAMBDA l : l \notin DOMAIN d)

\* the number of iterations of simulate's loop: int(delta_t // dt + 1), lines 176, 179
LoopCount(delta_t, dt) == RFloorDiv(delta_t, dt) + 1

RECURSIVE ApplyDynamics(_, _)
\* lines 110-111: every generator in order on the state; stops where one raises
ApplyDynamics(d, gens) ==
    IF gens = <<>> THEN Ret(TRUE, d)
    ELSE Bind(Dynamics_call(gens[1], d), LAMBDA res :
             IF res.ok THEN ApplyDynamics(res.d, Tail(gens)) ELSE res)

\* lines 115-124 for one axis: the totals over self.dynamics_names
SetTotals(d, names, i) ==
    DictSet(d,
        DictSet(One(Lbl("f", i, "total"),
                    RSum([k \in DOMAIN names |-> d[Lbl("f", i, names[k])]])),
                One(Lbl("tau", i, "total"),
                    RSum([k \in DOMAIN names |-> d[Lbl("tau", i, names[k])]]))))
\* lines 112-124: for axis in AXES
ComputeTotals(d, names) == SetTotals(SetTotals(SetTotals(d, names, 1), names, 2), names, 3)

\* the labels _compute_accelerations reads, lines 56-72
AccelReads ==
    VecLabels("f", "total") \cup VecLabels("tau", "total") \cup VecLabels("omega", "boat")
    \cup {ILbl(i, j) : i \in Ax, j \in Ax} \cup {"m__boat"} \cup VecLabels("c", "boat")

\* GyroBias with the operands of the cross product exchanged
GyroBiasSwapped(w, I_cm) == Cross(MatVec(I_cm, w), w)
\* B's lower block, line 92: w_x @ I_cm @ w
GyroBias(w, I_cm) == Cross(w, MatVec(I_cm, w))

\* lines 95-99: the accelerations of force F, torque T, angular velocity w,
\* inertia I_cm and mass m, written into d
SolveAccelerations(d, F, T, w, I_cm, m) ==
    DictSet(DictSet(d, VecDict("a", "boat", VScale(RDiv(RInt(1), m), F))),
            VecDict("alpha", "boat", MatVec(Inv3(I_cm), VSub(T, GyroBias(w, I_cm)))))

\* _compute_accelerations, lines 54-101: inv(A) * (FT - B) with A block diagonal
\* (m*I3, I_cm); raises on a missing label or a singular A
compute_accelerations(d) ==
    IF ~(AccelReads \subseteq DOMAIN d) THEN Ret(FALSE, d)
    ELSE Bind(Tup3(LAMBDA i : Tup3(LAMBDA j : d[ILbl(i, j)])), LAMBDA I_cm :
        IF d["m__boat"] = RZero \/ Det3(I_cm) = RZero THEN Ret(FALSE, d)
        ELSE Ret(TRUE, SolveAccelerations(d, VecOf(d, "f", "total"),
                           VecOf(d, "tau", "total"), VecOf(d, "omega", "boat"),
                           I_cm, d["m__boat"])))

\* BootstrapAdvance without the factor 0.5
BootstrapAdvanceNoHalf(x, xdot, xddot, dt) ==
    RAdd(x, RAdd(RMul(xdot, dt), RMul(xddot, RMul(dt, dt))))
\* lines 141-142: x + xdot*dt + 0.5*xddot*dt**2
BootstrapAdvance(x, xdot, xddot, dt) ==
    RAdd(x, RAdd(RMul(xdot, dt), RMul(Rat(1, 2), RMul(xddot, RMul(dt, dt)))))
\* lines 143-144: xdot + xddot*dt
BootstrapRate(xdot, xddot, dt) == RAdd(xdot, RMul(xddot, dt))
\* lines 150-151: 2*x - x_prev + xddot*dt**2
CentralAdvance(x, x_prev, xddot, dt) ==
    RAdd(RSub(RMul(RInt(2), x), x_prev), RMul(xddot, RMul(dt, dt)))
\* lines 152-153: (x_new - x_prev) / (2*dt)
CentralRate(x_new, x_prev, dt) == RDiv(RSub(x_new, x_prev), RMul(RInt(2), dt))
\* TimeAdvance that leaves t as it is
TimeAdvanceNone(t, dt) == t
\* line 158: t += dt
TimeAdvance(t, dt) == RAdd(t, dt)

\* a write of v under label l into the dictionary with id `id`
HeapWrite(h, id, l, v) == [h EXCEPT ![id] = DictSet(@, One(l, v))]

\* State.get() as line 131 uses it: the dictionary itself, or a copy of it
StateGet(h, id, copies) ==
    IF copies THEN [h |-> Append(h, h[id]), id |-> Len(h) + 1]
    ELSE [h |-> h, id |-> id]
\* State.copy(): a new State over a copy of the dictionary
StateCopy(h, id) == [h |-> Append(h, h[id]), id |-> Len(h) + 1]
\* NextState without the copy: next_state = self.state
NextStateAliased(h, id) == [h |-> h, id |-> id]
\* line 133: next_state = self.state.copy()
NextState(h, id) == StateCopy(h, id)
\* line 131: self.history.append(...)
HistoryAppend(hist, id) == Append(hist, id)

\* lines 141-144 for one axis: the first step's writes into next_state (id nxt)
UpdateBootstrap(h, cur, nxt, lin, ang, vel, omg, acc, alp, dt) ==
    Bind(HeapWrite(h, nxt, lin,
             BootstrapAdvance(h[nxt][lin], h[cur][vel], h[nxt][acc], dt)), LAMBDA h1 :
    Bind(HeapWrite(h1, nxt, ang,
             BootstrapAdvance(h1[nxt][ang], h1[cur][omg], h1[nxt][alp], dt)), LAMBDA h2 :
    Bind(HeapWrite(h2, nxt, vel,
             BootstrapRate(h2[nxt][vel], h2[cur][acc], dt)), LAMBDA h3 :
        HeapWrite(h3, nxt, omg, BootstrapRate(h3[nxt][omg], h3[cur][alp], dt)))))

\* lines 147-153 for one axis: a later step's writes into next_state (id nxt),
\* x_prev the id of history[-2]
UpdateCentral(h, cur, nxt, x_prev, lin, ang, vel, omg, acc, alp, dt) ==
    Bind(HeapWrite(h, nxt, lin,
             CentralAdvance(h[cur][lin], h[x_prev][lin], h[cur][acc], dt)), LAMBDA h1 :
    Bind(HeapWrite(h1, nxt, ang,
             CentralAdvance(h1[cur][ang], h1[x_prev][ang], h1[cur][alp], dt)), LAMBDA h2 :
    Bind(HeapWrite(h2, nxt, vel,
             CentralRate(h2[nxt][lin], h2[x_prev][lin], dt)), LAMBDA h3 :
        HeapWrite(h3, nxt, omg, CentralRate(h3[nxt][ang], h3[x_prev][ang], dt)))))

\* lines 138-153 for one axis: the writes into next_state (id nxt), reading the
\* current state (id cur) and, after the first step, history[-2]
UpdateAxis(h, cur, nxt, hist, i, dt) ==
    IF Len(hist) = 1
    THEN UpdateBootstrap(h, cur, nxt, Lbl("r", i, "boat"), Lbl("theta", i, "boat"),
             Lbl("v", i, "boat"), Lbl("omega", i, "boat"), Lbl("a", i, "boat"),
             Lbl("alpha", i, "boat"), dt)
    ELSE UpdateCentral(h, cur, nxt, hist[Len(hist) - 1], Lbl("r", i, "boat"),
             Lbl("theta", i, "boat"), Lbl("v", i, "boat"), Lbl("omega", i, "boat"),
             Lbl("a", i, "boat"), Lbl("alpha", i, "boat"), dt)

\* lines 130-158: the history entry, the next state, its updates on every axis
\* and its time, from the heap h in which the current state (id cur) holds the
\* accelerations
Advance(h, cur, hist, copies, dt) ==
    Bind(StateGet(h, cur, copies), LAMBDA got :
    Bind(HistoryAppend(hist, got.id), LAMBDA hist1 :
    Bind(NextState(got.h, cur), LAMBDA nxt :
    Bind(UpdateAxis(nxt.h, cur, nxt.id, hist1, 1, dt), LAMBDA hx :
    Bind(UpdateAxis(hx, cur, nxt.id, hist1, 2, dt), LAMBDA hy :
    Bind(UpdateAxis(hy, cur, nxt.id, hist1, 3, dt), LAMBDA hz :
        [ok |-> TRUE, state |-> nxt.id, hist |-> hist1,
         h |-> HeapWrite(hz, nxt.id, "t", TimeAdvance(hz[nxt.id]["t"], dt))]))))))

\* BoAtSim.step(dt), lines 103-158, from heap h, current state id cur and history
\* hist: ok = FALSE when it raised; the heap, state id and history it leaves
StepResult(h, cur, hist, gens, names, copies, dt) ==
    Bind(ApplyDynamics(h[cur], gens), LAMBDA dyn :
        IF ~dyn.ok
        THEN [ok |-> FALSE, h |-> [h EXCEPT ![cur] = dyn.d], state |-> cur, hist |-> hist]
        ELSE Bind(compute_accelerations(ComputeTotals(dyn.d, names)), LAMBDA acc :
            IF ~acc.ok
            THEN [ok |-> FALSE, h |-> [h EXCEPT ![cur] = acc.d], state |-> cur,
                  hist |-> hist]
            ELSE Advance([h EXCEPT ![cur] = acc.d], cur, hist, copies, dt)))


----------------------------------------------------------------------------
(* Initial states of the simulation *)

Diag(a, b, c) == << <<RInt(a), RZero, RZero>>, <<RZero, RInt(b), RZero>>,
                    <<RZero, RZero, RInt(c)>> >>
\* a symmetric positive-definite tensor that is not diagonal
Tilted == << <<RInt(1), RZero, RZero>>, <<RZero, RInt(2), RInt(1)>>,
             <<RZero, RInt(1), RInt(2)>> >>

\* the initial kinematics and mass properties to start from: at rest, spinning
\* about a principal axis, and spinning about an axis that is not principal
Profiles ==
    { [r |-> VInt(0, 0, 0), v |-> VInt(0, 0, 0), omega |-> VInt(0, 0, 0),
       t |-> RInt(0), m |-> RInt(1), I |-> Diag(1, 2, 3)],
      [r |-> VInt(0, 2, 0), v |-> VInt(0, 1, 0), omega |-> VInt(0, 0, 1),
       t |-> RInt(3), m |-> RInt(2), I |-> Diag(1, 2, 3)],
      [r |-> VInt(1, 0, -2), v |-> VInt(1, 0, -1), omega |-> VInt(0, 0, 1),
       t |-> Rat(1, 2), m |-> RInt(2), I |-> Tilted] }
\* the profile with no rotation, for the lists that hold a MeshBuoyancy
RestProfiles == {p \in Profiles : p.omega = VZero}
\* the profiles that keep spinning about one axis under a torque about it, for
\* the lists that exert a torque (a tumbling body's rationals outgrow TLC's
\* integers within a few steps)
SteadyProfiles == {p \in Profiles : GyroBias(p.omega, p.I) = VZero}

\* the lists of ConstantForce generators to attach
ForceLists ==
    { <<>>,
      <<ConstantForce("thrust", VInt(2, 0, -4), VZero)>>,
      <<ConstantForce("thrust", VInt(2, 0, -4), VZero),
        ConstantForce("wind", VInt(-2, 0, 4), VZero)>>,
      <<ConstantForce("thrust", VInt(2, 0, 0), VZero),
        ConstantForce("thrust", VInt(0, 4, 0), VZero)>>,
      <<ConstantForce("total", VInt(2, 0, 0), VZero)>>,
      <<ConstantForce("prop", VInt(0, 2, 0), VInt(0, 0, 1))>> }
\* the lists that hold a MeshBuoyancy
BuoyLists ==
    { <<MeshBuoyancy("buoyancy",
                     {VInt(0, 0, -1), VInt(0, 0, 0), VInt(0, 0, 1), VInt(0, 0, 2)}),
        ConstantForce("gravity", VInt(0, 0, -10), VZero)>> }
\* the label sets a state may lack
MissingSets ==
    { {"m__boat"}, {"m__boat", "t"}, {"rho__water"}, {"I_xy__boat"},
      {"v_y__boat", "rho__water"} }

\* the inertia tensor I under the labels I_xx__boat ... I_zz__boat
InertiaDict(I) ==
    [l \in {ILbl(i, j) : i \in Ax, j \in Ax} |->
        Bind(CHOOSE ij \in Ax \X Ax : ILbl(ij[1], ij[2]) = l, LAMBDA ij : I[ij[1]][ij[2]])]

\* the state dictionary of profile p, with every label the integrator and the
\* generators read
FullState(p) ==
    DictSet(DictSet(DictSet(DictSet(VecDict("r", "boat", p.r), VecDict("v", "boat", p.v)),
                    DictSet(VecDict("a", "boat", VZero), VecDict("theta", "boat", VZero))),
                    DictSet(VecDict("omega", "boat", p.omega),
                            VecDict("alpha", "boat", VZero))),
            DictSet(DictSet(InertiaDict(p.I), VecDict("c", "boat", VZero)),
                    DictSet(DictSet(One("m__boat", p.m), One("t", p.t)),
                            DictSet(One("r_z__water", RZero), One("rho__water", RInt(2))))))

NoCall == [outcome |-> "none", reported |-> <<>>, labelsAtCall |-> {},
           delta_t |-> RZero, dt |-> RZero, steps |-> 0]

\* BoAtSim.__init__, lines 17-52, over the given state and generators
SimInit ==
    /\ \E p \in Profiles, gens \in ForceLists \cup BuoyLists, miss \in MissingSets \cup {{}} :
        /\ gens \in BuoyLists => p \in RestProfiles
        /\ (\E k \in DOMAIN gens : gens[k].tau # VZero) => p \in SteadyProfiles
        /\ miss # {} => p \in RestProfiles /\ Len(gens) = 2
        /\ heap = <<Without(FullState(p), miss)>>
        /\ dynamics = gens
    /\ state = 1
    /\ history = <<>>
    /\ dynamics_names = NamesOf(dynamics)
    /\ getCopies \in BOOLEAN
    /\ pc = "idle"
    /\ remaining = 0
    /\ curDt = RZero
    /\ lastCall = NoCall
    /\ completed = 0
    /\ dts = <<>>
    /\ mutations = 0

\* no simulation: the state of the simulation variables in SpecBuoy
SimNone ==
    /\ heap = <<>> /\ state = 0 /\ history = <<>> /\ dynamics = <<>>
    /\ dynamics_names = <<>> /\ getCopies = FALSE /\ pc = "none" /\ remaining = 0
    /\ curDt = RZero /\ lastCall = NoCall /\ completed = 0 /\ dts = <<>>
    /\ mutations = 0
\* no generator under test: the state of the MeshBuoyancy variables in Spec
BuoyNone ==
    /\ bstate = <<>> /\ buoyancy_model = {} /\ buoyancy_model_temp = {}
    /\ submerged = {} /\ bin = <<>>

----------------------------------------------------------------------------
(* Operations of the simulation *)

\* the inputs of simulate
DeltaTs == {RInt(2), RInt(3)}
Dts == {RInt(1), RInt(2)}

\* simulate(delta_t, dt), lines 160-174: a required label is missing, it raises
SimulateRaises ==
    \E delta_t \in DeltaTs, dt \in Dts :
        /\ pc = "idle"
        /\ missing_labels(heap[state]) # <<>>
        /\ lastCall' = [outcome |-> "raised", reported |-> missing_labels(heap[state]),
                        labelsAtCall |-> DOMAIN heap[state],
                        delta_t |-> delta_t, dt |-> dt, steps |-> 0]
        /\ UNCHANGED <<heap, state, history, dynamics, dynamics_names, getCopies, pc,
                       remaining, curDt, completed, dts, mutations>>

\* simulate(delta_t, dt), lines 160-180: the labels are there, the loop starts
SimulateStarts ==
    \E delta_t \in DeltaTs, dt \in Dts :
        /\ pc = "idle"
        /\ missing_labels(heap[state]) = <<>>
        /\ completed + LoopCount(delta_t, dt) <= MaxSteps
        /\ pc' = "running"
        /\ remaining' = LoopCount(delta_t, dt)
        /\ curDt' = dt
        /\ lastCall' = [outcome |-> "running", reported |-> <<>>,
                        labelsAtCall |-> DOMAIN heap[state],
                        delta_t |-> delta_t, dt |-> dt, steps |-> 0]
        /\ UNCHANGED <<heap, state, history, dynamics, dynamics_names, getCopies,
                       completed, dts, mutations>>

\* one iteration of simulate's loop: self.step(dt=dt) returns
StepReturns ==
    /\ pc = "running"
    /\ remaining > 0
    /\ \E res \in {StepResult(heap, state, history, dynamics, dynamics_names,
                                getCopies, curDt)} :
           /\ res.ok
           /\ heap' = res.h
           /\ state' = res.state
           /\ history' = res.hist
    /\ remaining' = remaining - 1
    /\ pc' = IF remaining = 1 THEN "idle" ELSE "running"
    /\ lastCall' = [lastCall EXCEPT !.steps = @ + 1,
                                    !.outcome = IF remaining = 1 THEN "done" ELSE @]
    /\ completed' = completed + 1
    /\ dts' = Append(dts, curDt)
    /\ UNCHANGED <<dynamics, dynamics_names, getCopies, curDt, mutations>>

\* one iteration of simulate's loop: self.step(dt=dt) raises, and so does simulate
StepRaises ==
    /\ pc = "running"
    /\ remaining > 0
    /\ \E res \in {StepResult(heap, state, history, dynamics, dynamics_names,
                                getCopies, curDt)} :
           /\ ~res.ok
           /\ heap' = res.h
           /\ state' = res.state
           /\ history' = res.hist
    /\ remaining' = 0
    /\ pc' = "idle"
    /\ lastCall' = [lastCall EXCEPT !.outcome = "step_raised"]
    /\ UNCHANGED <<dynamics, dynamics_names, getCopies, curDt, completed, dts, mutations>>

\* the labels and values a caller writes into the current state between calls
CallerLabels == {"v_x__boat"}
CallerValues == {RInt(7)}

\* the caller writes into sim.state between two simulate calls
CallerWrites ==
    \E l \in CallerLabels, v \in CallerValues :
        /\ pc = "idle"
        /\ mutations < MaxMutations
        /\ l \in DOMAIN heap[state]
        /\ heap' = HeapWrite(heap, state, l, v)
        /\ mutations' = mutations + 1
        /\ UNCHANGED <<state, history, dynamics, dynamics_names, getCopies, pc,
                       remaining, curDt, lastCall, completed, dts>>

Init == SimInit /\ BuoyNone
Next ==
    \/ SimulateRaises /\ UNCHANGED buoyvars
    \/ SimulateStarts /\ UNCHANGED buoyvars
    \/ StepReturns /\ UNCHANGED buoyvars
    \/ StepRaises /\ UNCHANGED buoyvars
    \/ CallerWrites /\ UNCHANGED buoyvars
Spec == Init /\ [][Next]_vars

InitBuoy == BuoyInit /\ SimNone
NextBuoy == BuoyComputeDynamics /\ UNCHANGED simvars
SpecBuoy == InitBuoy /\ [][NextBuoy]_vars

----------------------------------------------------------------------------
(* Properties *)

\* the current state's dictionary and the k-th history entry
Cur == heap[state]
Hist(k) == heap[history[k]]

\* every completed step used the same dt
ConstDt == \A k \in DOMAIN dts : dts[k] = dts[1]
\* every step so far ran under the same total force and no total torque
ConstForceNoTorque ==
    \A k \in DOMAIN history :
        /\ VecOf(Hist(k), "f", "total") = VecOf(Hist(1), "f", "total")
        /\ VecOf(Hist(k), "tau", "total") = VZero
\* the first step ran under no total force and no total torque
NoForceNoTorque ==
    /\ VecOf(Hist(1), "f", "total") = VZero
    /\ VecOf(Hist(1), "tau", "total") = VZero
\* the steps so far all returned, on a state no caller wrote into
Undisturbed == completed >= 1 /\ Len(history) = completed /\ mutations = 0
\* the acceleration F/m of the first step
Accel0 == VScale(RDiv(RInt(1), Hist(1)["m__boat"]), VecOf(Hist(1), "f", "total"))
\* the time the steps so far span when they all used the same dt
Elapsed == RMul(RInt(completed), dts[1])

\* the labels the integrator reads from the state it is given
IntegratorReads == Range(required_labels) \cup {ILbl(i, j) : i \in Ax, j \in Ax}
\* the labels the attached generators declare
GeneratorLabels == UNION {Range(required_state_labels(dynamics[k])) : k \in DOMAIN dynamics}

\* C1: whenever a label that a generator declares or the integrator reads is
\* absent at a simulate call, the call fails before any step and reports
\* exactly the absent labels.
C1_MissingLabelsFailFast ==
    lastCall.outcome # "none" =>
        LET miss == (GeneratorLabels \cup IntegratorReads) \ lastCall.labelsAtCall
        IN  miss # {} =>
                /\ lastCall.outcome = "raised"
                /\ Range(lastCall.reported) = miss

\* C2: a simulate call that returns has made exactly ceil(delta_t / dt) steps.
C2_StepsAreCeil ==
    lastCall.outcome = "done" => lastCall.steps = RCeilDiv(lastCall.delta_t, lastCall.dt)

\* C3: the history holds one entry per completed step, and no step, failed
\* step, simulate call or caller write changes an entry already appended.
C3_HistoryAppendOnly ==
    [][ /\ Len(history') = completed'
        /\ Len(history') >= Len(history)
        /\ \A k \in DOMAIN history :
               /\ heap'[history'[k]] = heap[history[k]]
               /\ VecOf(heap'[history'[k]], "r", "boat") = VecOf(heap[history[k]], "r", "boat")
               /\ heap'[history'[k]]["t"] = heap[history[k]]["t"] ]_vars
\* C3's case: steps, then a caller write, then more steps
C3_Witness ==
    /\ Len(history) >= 3
    /\ mutations = 1
    /\ Hist(1)["v_x__boat"] # RInt(7)
    /\ Hist(Len(history))["v_x__boat"] = RInt(7)
    /\ Hist(Len(history))["t"] # Hist(1)["t"]

\* C4: under a constant total force and no torque, the position after n >= 3
\* steps of size dt is r0 + v0*(n*dt) + (1/2)*(F/m)*(n*dt)^2 on every axis.
C4_ClosedFormPosition ==
    (Undisturbed /\ completed >= 3 /\ ConstDt /\ ConstForceNoTorque) =>
        VecOf(Cur, "r", "boat") =
            VAdd(VecOf(Hist(1), "r", "boat"),
                 VAdd(VScale(Elapsed, VecOf(Hist(1), "v", "boat")),
                      VScale(RMul(Rat(1, 2), RMul(Elapsed, Elapsed)), Accel0)))
\* C4's case: three or more steps under a force, from a moving start
C4_Witness ==
    /\ Undisturbed /\ completed >= 3 /\ ConstDt /\ ConstForceNoTorque
    /\ Accel0 # VZero
    /\ VecOf(Hist(1), "v", "boat") # VZero
    /\ dts[1] = RInt(2)

\* C5 as stated: after one step under no total force and no total torque the
\* velocity and the angular velocity are those before the step.
C5_RatesUnchanged ==
    (Undisturbed /\ completed = 1 /\ NoForceNoTorque) =>
        /\ VecOf(Cur, "v", "boat") = VecOf(Hist(1), "v", "boat")
        /\ VecOf(Cur, "omega", "boat") = VecOf(Hist(1), "omega", "boat")
\* the inertia tensor and the angular velocity the first step started from
Inertia0 == Tup3(LAMBDA i : Tup3(LAMBDA j : Hist(1)[ILbl(i, j)]))
Omega0 == VecOf(Hist(1), "omega", "boat")
\* C5 amended: after one step under no total force and no total torque the
\* velocity is the one before the step, and the angular velocity is
\* omega - inv(I_cm) (omega x I_cm omega) dt: the one before the step exactly
\* when omega x (I_cm omega) is zero.
C5_RatesUnchangedButGyro ==
    (Undisturbed /\ completed = 1 /\ NoForceNoTorque) =>
        /\ VecOf(Cur, "v", "boat") = VecOf(Hist(1), "v", "boat")
        /\ VecOf(Cur, "omega", "boat") =
               VSub(Omega0, VScale(dts[1], MatVec(Inv3(Inertia0),
                                                  Cross(Omega0, MatVec(Inertia0, Omega0)))))
        /\ (Cross(Omega0, MatVec(Inertia0, Omega0)) = VZero
                <=> VecOf(Cur, "omega", "boat") = Omega0)
\* C5's case: one step of a body that spins about a non-principal axis
C5_Witness ==
    /\ Undisturbed /\ completed = 1 /\ NoForceNoTorque
    /\ Cross(Omega0, MatVec(Inertia0, Omega0)) # VZero
    /\ VecOf(Hist(1), "v", "boat") # VZero

\* C6: the current state's t is the initial t plus the dt of every completed
\* step (t0 + n*dt when they are equal), and the k-th history entry holds the
\* initial t plus the dt of the steps before it.
C6_TimeAdvances ==
    completed >= 1 =>
        /\ Cur["t"] = RAdd(heap[1]["t"], RSum(dts))
        /\ ConstDt => Cur["t"] = RAdd(heap[1]["t"], Elapsed)
        /\ \A k \in DOMAIN history :
               Hist(k)["t"] = RAdd(heap[1]["t"], RSum(SubSeq(dts, 1, k - 1)))
\* C6's case: steps of two simulate calls with different dt, from a nonzero t
C6_Witness ==
    /\ completed >= 4
    /\ ~ConstDt
    /\ heap[1]["t"] # RZero
    /\ pc = "idle"

\* the force and torque generator g computed in the step recorded as entry H
GenForce(g, H, i) == IF g.kind = "ConstantForce" THEN g.f[i] ELSE H[Lbl("f", i, g.name)]
GenTorque(g, H, i) == IF g.kind = "ConstantForce" THEN g.tau[i] ELSE H[Lbl("tau", i, g.name)]
\* C7: in every step the total force and torque are, per axis, the sums of
\* what the attached generators computed, and recomputing the totals from
\* the same state gives the same totals.
C7_TotalsAreSums ==
    \A k \in DOMAIN history : \A i \in Ax :
        /\ Hist(k)[Lbl("f", i, "total")] =
               RSum([n \in DOMAIN dynamics |-> GenForce(dynamics[n], Hist(k), i)])
        /\ Hist(k)[Lbl("tau", i, "total")] =
               RSum([n \in DOMAIN dynamics |-> GenTorque(dynamics[n], Hist(k), i)])
        /\ ComputeTotals(Hist(k), dynamics_names)[Lbl("f", i, "total")] =
               Hist(k)[Lbl("f", i, "total")]

\* C8: the submerged piece is the part of the placed mesh at or below the
\* state's water-surface height r_z__water.
C8_SliceAtWaterHeight ==
    bin # <<>> =>
        submerged = {p \in buoyancy_model_temp : RLeq(p[3], bin["r_z__water"])}

\* C9: every base-mesh vertex p is placed at R(theta)(p - c) + r + c, which is
\* p + r at zero orientation.
C9_Placement ==
    bin # <<>> =>
        LET R == Block3(BuoyRotation(VecOf(bin, "theta", "boat")))
            r == VecOf(bin, "r", "boat")
            c == VecOf(bin, "c", "boat")
        IN  /\ buoyancy_model_temp =
                   {VAdd(VAdd(MatVec(R, VSub(p, c)), r), c) : p \in buoyancy_model}
            /\ VecOf(bin, "theta", "boat") = VZero =>
                   buoyancy_model_temp = {VAdd(p, r) : p \in buoyancy_model}

\* C10: under a constant total force and no torque, the velocity after n >= 1
\* steps of size dt is v0 + (F/m)*(n*dt), the velocity at the state's own time.
C10_VelocityAtStateTime ==
    (Undisturbed /\ ConstDt /\ ConstForceNoTorque) =>
        VecOf(Cur, "v", "boat") =
            VAdd(VecOf(Hist(1), "v", "boat"), VScale(Elapsed, Accel0))

====
